---- MODULE Spec2Model ----
(***************************************************************************)
(* Model of src/src/arena.rs: Handle<T> (a NonZeroU32 one-based index) and *)
(* Arena<T> (a Vec<T> with append, fetch_or_append, iter and Index), plus  *)
(* the SerHandle conversions used for the persisted form.                  *)
(*                                                                         *)
(* Numbers that the code holds in a usize or a u32 are kept at their width.*)
(* TLC's integers stop at 2^31-1, so such a number is a record of two      *)
(* base-2^16 digits, [hi, lo], standing for hi * 2^16 + lo: a u32 has      *)
(* hi < 2^16, a usize may have hi >= 2^16.                                 *)
(***************************************************************************)
EXTENDS Integers, Sequences, FiniteSets

VARIABLES data, other, log, ret, ulen

vars == <<data, other, log, ret, ulen>>

\* ---------------------------------------------------------------- bounds

\* insertion calls made on the arena `data`
MaxCalls == 4
\* elements appended to the second arena `other`
MaxOther == 2
\* element values are the u8 values 0..MaxValue
MaxValue == 1
\* the unit arena of SpecWide starts and stops within NearLimit elements
\* of the two lengths 0 and 2^32-1
NearLimit == 8

Values == 0..MaxValue

\* ------------------------------------------------------ machine integers

Half == 2^16

Wide(n) == [hi |-> n \div Half, lo |-> n % Half]

WToInt(w) == w.hi * Half + w.lo

WZero == Wide(0)

\* u32::MAX, the !0 of Handle::DUMMY
MaxU32 == [hi |-> Half - 1, lo |-> Half - 1]

WLess(a, b) == a.hi < b.hi \/ (a.hi = b.hi /\ a.lo < b.lo)

\* usize + 1; a Vec's length is at most isize::MAX, so this never wraps
WAdd1(w) ==
    IF w.lo = Half - 1 THEN [hi |-> w.hi + 1, lo |-> 0]
    ELSE [hi |-> w.hi, lo |-> w.lo + 1]

WSub1(w) ==
    IF w.lo = 0 THEN [hi |-> w.hi - 1, lo |-> Half - 1]
    ELSE [hi |-> w.hi, lo |-> w.lo - 1]

\* `position as u32`: the low 32 bits of a usize
AsU32(w) == [hi |-> w.hi % Half, lo |-> w.lo]

InU32(w) == w.hi \in 0..(Half - 1) /\ w.lo \in 0..(Half - 1)

\* ----------------------------------------------------------------- Handle

\* What a build may leave in a NonZeroU32 made from 0 without a check.
UBIndex == {WZero, Wide(1), MaxU32}

\* NonZeroU32::new_unchecked(x): the stored value is x; x = 0 is undefined
\* behaviour, modelled as a choice among UBIndex.
NewUnchecked(x) == IF x = WZero THEN UBIndex ELSE {x}

HandleNew(index) == [index |-> index]

HandleEq(a, b) == a.index = b.index

\* fault: the record holds the zero-based index() instead of the stored index
IntoSerHandleZeroBased(handle) ==
    [variant |-> "Handle", field |-> WSub1(handle.index)]

\* From<Handle<T>> for SerHandle
IntoSerHandle(handle) == [variant |-> "Handle", field |-> handle.index]

\* From<SerHandle> for Handle<T>
FromSerHandle(ser) == [index |-> ser.field]

\* ------------------------------------------------------------------ Arena

\* fault: the + 1 of the one-based position is left out
AppendIndexZeroBased(len) == NewUnchecked(AsU32(len))

\* append: position = len + 1, narrowed to u32, stored unchecked
AppendIndex(len) == NewUnchecked(AsU32(WAdd1(len)))

\* fault: the value is inserted at the front instead of pushed at the end
ArenaAppendFront(d, value) ==
    { [data |-> <<value>> \o d, handle |-> HandleNew(index)] :
        index \in AppendIndex(Wide(Len(d))) }

\* The outcomes of Arena::append(value) on the vector d.
ArenaAppend(d, value) ==
    { [data |-> Append(d, value), handle |-> HandleNew(index)] :
        index \in AppendIndex(Wide(Len(d))) }

\* fault: rposition, the last equal element instead of the first
PositionLast(d, value) ==
    IF \E i \in 1..Len(d) : d[i] = value
    THEN << (CHOOSE i \in 1..Len(d) :
                d[i] = value /\ \A j \in (i + 1)..Len(d) : d[j] # value) - 1 >>
    ELSE << >>

\* self.data.iter().position(|d| d == &value): <<p>> for the zero-based
\* position p of the first equal element, <<>> for None
Position(d, value) ==
    IF \E i \in 1..Len(d) : d[i] = value
    THEN << (CHOOSE i \in 1..Len(d) :
                d[i] = value /\ \A j \in 1..(i - 1) : d[j] # value) - 1 >>
    ELSE << >>

\* fault: the zero-based position is stored as it is
FoundIndexZeroBased(pos) == NewUnchecked(AsU32(pos))

\* the handle index built for a match at zero-based position pos
FoundIndex(pos) == NewUnchecked(AsU32(WAdd1(pos)))

\* fault: no scan for an equal element, every call appends
ArenaFetchOrAppendNoScan(d, value) == ArenaAppend(d, value)

\* The outcomes of Arena::fetch_or_append(value) on the vector d.
ArenaFetchOrAppend(d, value) ==
    LET p == Position(d, value) IN
    IF p # << >>
    THEN { [data |-> d, handle |-> HandleNew(index)] :
             index \in FoundIndex(Wide(p[1])) }
    ELSE ArenaAppend(d, value)

\* &self.data[index as usize]: a bounds-checked read
Lookup(d, index) ==
    IF WLess(index, Wide(Len(d)))
    THEN [panic |-> FALSE, value |-> d[WToInt(index) + 1]]
    ELSE [panic |-> TRUE]

\* fault: the one-based index is used as the vector position
ArenaIndexNoSub(d, handle) == {Lookup(d, handle.index)}

\* The outcomes of arena[handle]: handle.index.get() - 1 is a u32
\* subtraction, which on 0 panics (overflow checks on) or wraps (off).
ArenaIndex(d, handle) ==
    IF handle.index = WZero
    THEN {[panic |-> TRUE], Lookup(d, MaxU32)}
    ELSE {Lookup(d, WSub1(handle.index))}

\* fault: the enumerate() position is stored without the + 1
IterIndexZeroBased(i) == NewUnchecked(AsU32(i))

\* the handle index iter() builds for the element at zero-based position i
IterIndex(i) == NewUnchecked(AsU32(WAdd1(i)))

\* The sequences of pairs arena.iter() may yield for the first n elements
\* of the vector d: enumerate() pairs the zero-based i with &d[i].
RECURSIVE IterTake(_, _)
IterTake(d, n) ==
    IF n = 0 THEN {<< >>}
    ELSE { Append(s, <<HandleNew(index), d[n]>>) :
             s \in IterTake(d, n - 1), index \in IterIndex(Wide(n - 1)) }

\* The sequences of pairs arena.iter() may yield on the vector d.
ArenaIter(d) == IterTake(d, Len(d))

\* ------------------------------------------------------------- operations

\* Arena::new() for both arenas; nothing called yet.
Init ==
    /\ data = << >>
    /\ other = << >>
    /\ log = << >>
    /\ ret = [op |-> "new"]
    /\ ulen = WZero

\* the handles the caller has been given so far, each with where it came
\* from: this arena ("own"), the second arena ("other") or a persisted
\* record ("persisted")
Held ==
    { [handle |-> log[n].handle, origin |-> "own"] : n \in 1..Len(log) }
      \cup (IF ret.op \in {"append", "fetch_or_append"}
            THEN {[handle |-> ret.handle, origin |-> "own"]} ELSE {})
      \cup (IF ret.op = "append_other"
            THEN {[handle |-> ret.handle, origin |-> "other"]} ELSE {})
      \cup (IF ret.op = "de"
            THEN {[handle |-> ret.handle, origin |-> "persisted"]} ELSE {})
      \cup (IF ret.op \in {"index", "ser"}
            THEN {[handle |-> ret.handle, origin |-> ret.origin]} ELSE {})
      \cup (IF ret.op = "iter"
            THEN { [handle |-> ret.out[k][1], origin |-> "own"] : k \in 1..Len(ret.out) }
            ELSE {})

AppendAct(value) ==
    /\ Len(log) < MaxCalls
    /\ \E r \in ArenaAppend(data, value) :
         /\ data' = r.data
         /\ ret' = [op |-> "append", value |-> value, handle |-> r.handle, before |-> data]
         /\ log' = Append(log, [op |-> "append", value |-> value,
                                handle |-> r.handle, len |-> Len(r.data)])
    /\ UNCHANGED <<other, ulen>>

FetchOrAppendAct(value) ==
    /\ Len(log) < MaxCalls
    /\ \E r \in ArenaFetchOrAppend(data, value) :
         /\ data' = r.data
         /\ ret' = [op |-> "fetch_or_append", value |-> value, handle |-> r.handle,
                    before |-> data]
         /\ log' = Append(log, [op |-> "fetch_or_append", value |-> value,
                                handle |-> r.handle, len |-> Len(r.data)])
    /\ UNCHANGED <<other, ulen>>

\* append on a second arena of the same element type
AppendOtherAct(value) ==
    /\ Len(other) < MaxOther
    /\ \E r \in ArenaAppend(other, value) :
         /\ other' = r.data
         /\ ret' = [op |-> "append_other", value |-> value, handle |-> r.handle,
                    before |-> other]
    /\ UNCHANGED <<data, log, ulen>>

\* data[handle] for any handle the caller holds
IndexAct ==
    /\ \E h \in Held : \E out \in ArenaIndex(data, h.handle) :
         ret' = [op |-> "index", handle |-> h.handle, origin |-> h.origin,
                 out |-> out, before |-> data]
    /\ UNCHANGED <<data, other, log, ulen>>

\* data.iter() run to its end
IterAct ==
    /\ \E out \in ArenaIter(data) :
         ret' = [op |-> "iter", out |-> out, before |-> data]
    /\ UNCHANGED <<data, other, log, ulen>>

\* the indices of the persisted records read from outside
PersistedIndices == { Wide(n) : n \in 1..(MaxCalls + 1) } \cup {MaxU32}

\* a persisted record Handle(n) arrives from outside
LoadAct ==
    /\ \E index \in PersistedIndices :
         ret' = [op |-> "load", form |-> [variant |-> "Handle", field |-> index]]
    /\ UNCHANGED <<data, other, log, ulen>>

SerializeAct ==
    /\ \E h \in Held :
         ret' = [op |-> "ser", handle |-> h.handle, origin |-> h.origin,
                 form |-> IntoSerHandle(h.handle)]
    /\ UNCHANGED <<data, other, log, ulen>>

DeserializeAct ==
    /\ ret.op \in {"ser", "load"}
    /\ ret' = [op |-> "de", form |-> ret.form, handle |-> FromSerHandle(ret.form),
               from |-> IF ret.op = "ser" THEN <<ret.handle>> ELSE << >>,
               before |-> data]
    /\ UNCHANGED <<data, other, log, ulen>>

\* Building one arena and reading it back.
Next ==
    \/ \E value \in Values : AppendAct(value)
    \/ \E value \in Values : FetchOrAppendAct(value)
    \/ IndexAct
    \/ IterAct

Spec == Init /\ [][Next]_vars

\* Handles that reach the arena from elsewhere: a second arena and the
\* persisted form.  append alone already builds every vector of Values.
NextHandles ==
    \/ \E value \in Values : AppendAct(value)
    \/ \E value \in Values : AppendOtherAct(value)
    \/ LoadAct
    \/ SerializeAct
    \/ DeserializeAct
    \/ IndexAct

SpecHandles == Init /\ [][NextHandles]_vars

\* ------------------------------------------------ an arena near 2^32 long

\* Arena<()>: a Vec of a zero-sized element holds nothing but its length,
\* ulen, and every element equals every other.  Such an arena reaches any
\* length by append alone, so the lengths next to 2^32 are states of the
\* program; they are taken as initial states instead of being counted up to.
StartLens ==
    { Wide(k) : k \in 0..NearLimit }
      \cup { [hi |-> Half - 1, lo |-> Half - 1 - k] : k \in 0..NearLimit }

InitWide ==
    /\ data = << >>
    /\ other = << >>
    /\ log = << >>
    /\ ret = [op |-> "new"]
    /\ ulen \in StartLens

\* ulen may still grow within the window the model looks at
MayGrow ==
    \/ WLess(ulen, Wide(2 * NearLimit))
    \/ /\ ulen.hi >= Half - 1
       /\ WLess(ulen, [hi |-> Half, lo |-> NearLimit])

\* Arena::append(()) on the unit arena; pos is the new element's position
AppendUnitAct ==
    /\ MayGrow
    /\ \E index \in AppendIndex(ulen) :
         ret' = [op |-> "append_unit", handle |-> HandleNew(index), pos |-> ulen]
    /\ ulen' = WAdd1(ulen)
    /\ UNCHANGED <<data, other, log>>

\* Arena::fetch_or_append(()) on the unit arena: position() finds element 0
\* of any non-empty arena
FetchOrAppendUnitAct ==
    /\ IF ulen # WZero
       THEN /\ \E index \in FoundIndex(WZero) :
                 ret' = [op |-> "fetch_or_append_unit", handle |-> HandleNew(index),
                         pos |-> WZero]
            /\ ulen' = ulen
       ELSE /\ \E index \in AppendIndex(ulen) :
                 ret' = [op |-> "fetch_or_append_unit", handle |-> HandleNew(index),
                         pos |-> ulen]
            /\ ulen' = WAdd1(ulen)
    /\ UNCHANGED <<data, other, log>>

\* the zero-based positions the model lets iter() be advanced to
IterWindow ==
    { i \in { Wide(k) : k \in 0..NearLimit }
              \cup { [hi |-> Half - 1, lo |-> Half - 1 - k] : k \in 0..NearLimit }
              \cup { [hi |-> Half, lo |-> k] : k \in 0..NearLimit } :
        WLess(i, ulen) }

\* the pair iter() yields for the element at position i, as by iter().nth(i)
IterUnitAct ==
    /\ \E i \in IterWindow : \E index \in IterIndex(i) :
         ret' = [op |-> "iter_unit", handle |-> HandleNew(index), pos |-> i]
    /\ UNCHANGED <<data, other, log, ulen>>

NextWide ==
    \/ AppendUnitAct
    \/ FetchOrAppendUnitAct
    \/ IterUnitAct

SpecWide == InitWide /\ [][NextWide]_vars

\* ------------------------------------------------- vocabulary of the claims

Elems(d) == { d[i] : i \in 1..Len(d) }

NoDup(d) == \A i, j \in 1..Len(d) : d[i] = d[j] => i = j

\* the one-based position of the first element of d equal to v
FirstEq(d, v) == CHOOSE i \in 1..Len(d) : d[i] = v /\ \A j \in 1..(i - 1) : d[j] # v

\* indexing succeeded and gave v
Ok(v) == [panic |-> FALSE, value |-> v]

\* the arena's length before the n-th insertion call
LenBefore(n) == IF n = 1 THEN 0 ELSE log[n - 1].len

\* the n-th insertion call created an element
Created(n) == log[n].len > LenBefore(n)

IsPrefix(s, t) == Len(s) <= Len(t) /\ \A i \in 1..Len(s) : s[i] = t[i]

\* ------------------------------------------------------------------ claims

\* C1: append(v) adds exactly one element, v, at the end (also when an equal
\* element is already there) and returns the handle whose one-based index is
\* the new len; the handles of successive append calls strictly increase, and
\* an append returns no handle that an earlier call returned, nor changes
\* what an earlier handle resolves to.
C1_AppendAddsOneAtEnd ==
    /\ ret.op = "append" =>
         /\ data = Append(ret.before, ret.value)
         /\ Len(data) = Len(ret.before) + 1
         /\ ret.handle.index = Wide(Len(data))
         /\ \A m \in 1..(Len(log) - 1) :
              ArenaIndex(data, log[m].handle) = ArenaIndex(ret.before, log[m].handle)
    /\ \A m, n \in 1..Len(log) :
         (m < n /\ log[n].op = "append") =>
           /\ ~HandleEq(log[m].handle, log[n].handle)
           /\ log[m].op = "append" => WLess(log[m].handle.index, log[n].handle.index)

\* an append of a value already present, after two other append calls
C1_Witness ==
    /\ ret.op = "append"
    /\ ret.value \in Elems(ret.before)
    /\ Len(log) >= 3
    /\ \A n \in 1..Len(log) : log[n].op = "append"

\* C2: fetch_or_append(v) returns the handle of the first element equal to v
\* and leaves the arena as it was when there is one, and otherwise does what
\* append(v) does; either way the returned handle resolves to v.
C2_FetchOrAppend ==
    ret.op = "fetch_or_append" =>
      /\ IF ret.value \in Elems(ret.before)
         THEN /\ data = ret.before
              /\ ret.handle.index = Wide(FirstEq(ret.before, ret.value))
         ELSE /\ data = Append(ret.before, ret.value)
              /\ ret.handle.index = Wide(Len(ret.before) + 1)
              /\ [data |-> data, handle |-> ret.handle]
                   \in ArenaAppend(ret.before, ret.value)
      /\ ArenaIndex(data, ret.handle) = {Ok(ret.value)}

\* a fetch_or_append that found its value twice in the arena, not at the front
C2_Witness ==
    /\ ret.op = "fetch_or_append"
    /\ Cardinality({ i \in 1..Len(ret.before) : ret.before[i] = ret.value }) >= 2
    /\ ret.before[1] # ret.value

\* C3: every handle an insertion call returned keeps resolving, without a
\* panic, to the value it was returned for, whatever is inserted later; the
\* arena only grows at its end.
C3_HandlesStayValid ==
    /\ [](\A n \in 1..Len(log) :
            /\ ArenaIndex(data, log[n].handle) = {Ok(log[n].value)}
            /\ \A m \in 1..Len(log) :
                 log[m].value # log[n].value =>
                   ArenaIndex(data, log[m].handle) # ArenaIndex(data, log[n].handle))
    /\ [][IsPrefix(data, data')]_vars

\* the first handle, still held after three later calls of both kinds
C3_Witness ==
    /\ Len(log) = 4
    /\ \E m, n \in 2..4 : log[m].op = "append" /\ log[n].op = "fetch_or_append"
    /\ Len(data) >= 3

\* C4 as stated: the handle of the Nth insertion call encodes N.
C4_NthHandleIsN ==
    \A n \in 1..Len(log) : log[n].handle.index = Wide(n)

\* C4 amended: the handle of the Nth insertion call encodes the arena's len
\* after the call when the call created an element, and the position of the
\* first equal element, below N, when fetch_or_append found a duplicate; it
\* encodes N exactly when all N calls created an element.
C4_NthHandleAmended ==
    \A n \in 1..Len(log) :
      /\ IF Created(n)
         THEN /\ log[n].handle.index = Wide(log[n].len)
              /\ log[n].len <= n
         ELSE /\ log[n].op = "fetch_or_append"
              /\ log[n].handle.index = Wide(FirstEq(data, log[n].value))
              /\ WLess(log[n].handle.index, Wide(n))
      /\ (log[n].handle.index = Wide(n)) <=> (log[n].len = n)

\* a duplicate found by a late call, and an element created after it
C4_Witness ==
    /\ Len(log) = 4
    /\ ~Created(3)
    /\ Created(4)

\* C5: fetch_or_append calls with equal values return the same handle, next
\* to each other or not; two in a row for a value that was absent grow the
\* arena by one in total.
C5_CanonicalHandle ==
    /\ \A m, n \in 1..Len(log) :
         (/\ log[m].op = "fetch_or_append"
          /\ log[n].op = "fetch_or_append"
          /\ log[m].value = log[n].value) => HandleEq(log[m].handle, log[n].handle)
    /\ \A n \in 1..(Len(log) - 1) :
         (/\ log[n].op = "fetch_or_append"
          /\ log[n + 1].op = "fetch_or_append"
          /\ log[n].value = log[n + 1].value
          /\ Created(n)) => log[n + 1].len = LenBefore(n) + 1

\* two fetch_or_append calls for one value with an append of that value and
\* an insertion of another value between them
C5_Witness ==
    /\ Len(log) = 4
    /\ log[1].op = "fetch_or_append"
    /\ log[4].op = "fetch_or_append"
    /\ log[1].value = log[4].value
    /\ log[2].op = "append" /\ log[2].value = log[1].value
    /\ log[3].value # log[1].value

\* C8: iter() yields len() pairs in insertion order, the k-th being the handle
\* of index k with the k-th element; each yielded handle resolves to its
\* element and is the handle the creating call returned; iterating leaves the
\* arena alone and iterating again yields the same sequence.
C8_Iter ==
    /\ [](ret.op = "iter" =>
            /\ Len(ret.out) = Len(data)
            /\ data = ret.before
            /\ \A k \in 1..Len(data) :
                 /\ ret.out[k] = <<[index |-> Wide(k)], data[k]>>
                 /\ ArenaIndex(data, ret.out[k][1]) = {Ok(ret.out[k][2])}
            /\ \A n \in 1..Len(log) :
                 Created(n) => HandleEq(ret.out[log[n].len][1], log[n].handle))
    /\ [][(ret.op = "iter" /\ ret'.op = "iter") => ret'.out = ret.out]_vars

\* an iteration over an arena of three elements, two of them equal
C8_Witness ==
    /\ ret.op = "iter"
    /\ Len(ret.out) = 3
    /\ ~NoDup(data)

\* C10: an arena built by fetch_or_append alone holds no two equal elements,
\* its len is the number of distinct values passed, and two returned handles
\* are equal exactly when the values were; an append of a value already
\* present leaves two equal elements, and fetch_or_append goes on returning
\* the first of them.
C10_DedupInvariant ==
    /\ (\A n \in 1..Len(log) : log[n].op = "fetch_or_append") =>
         /\ NoDup(data)
         /\ Len(data) = Cardinality({ log[n].value : n \in 1..Len(log) })
         /\ \A m, n \in 1..Len(log) :
              HandleEq(log[m].handle, log[n].handle) <=> (log[m].value = log[n].value)
    /\ (ret.op = "append" /\ ret.value \in Elems(ret.before)) => ~NoDup(data)
    /\ \A n \in 1..Len(log) :
         log[n].op = "fetch_or_append" =>
           log[n].handle.index = Wide(FirstEq(data, log[n].value))

\* fetch_or_append only, then an append of a present value, then a
\* fetch_or_append of that value
C10_Witness ==
    /\ Len(log) = 4
    /\ log[1].op = "fetch_or_append" /\ log[2].op = "fetch_or_append"
    /\ log[1].value # log[2].value
    /\ log[3].op = "append" /\ log[3].value = log[2].value
    /\ ret.op = "fetch_or_append" /\ ret.value = log[2].value

\* C6 as stated: every handle append, fetch_or_append or iter produces stores
\* an index in 1..2^32-1 that is the element's zero-based position plus one.
C6_HandleNeverZero ==
    ret.op \in {"append_unit", "fetch_or_append_unit", "iter_unit"} =>
      /\ ret.handle.index # WZero
      /\ InU32(ret.handle.index)
      /\ ret.handle.index = WAdd1(ret.pos)

\* C7: data[h] panics exactly when h's one-based index exceeds len, and yields
\* the element at position index-1 otherwise, wherever h came from; the arena
\* is the same afterwards.
C7_IndexFatalIffBeyondLen ==
    ret.op = "index" =>
      /\ ret.out.panic <=> WLess(Wide(Len(data)), ret.handle.index)
      /\ ~ret.out.panic => ret.out = Ok(data[WToInt(ret.handle.index)])
      /\ data = ret.before

\* a handle of the second arena resolved in this one, to another value than
\* the one it was returned for
C7_Witness ==
    /\ ret.op = "index"
    /\ ret.origin = "other"
    /\ ~ret.out.panic
    /\ WToInt(ret.handle.index) = Len(other)
    /\ ret.out.value # other[Len(other)]

\* C9: a handle turned into its record Handle(index) and back is a handle
\* with the same stored index, up to the index 2^32-1; the way back takes the
\* record's field as it is and looks at no arena.
C9_SerRoundTrip ==
    /\ ret.op = "ser" =>
         /\ DOMAIN ret.form = {"variant", "field"}
         /\ ret.form.variant = "Handle"
         /\ ret.form.field = ret.handle.index
    /\ ret.op = "de" =>
         /\ ret.handle.index = ret.form.field
         /\ data = ret.before
         /\ ret.from # << >> =>
              /\ HandleEq(ret.handle, ret.from[1])
              /\ ret.handle.index = ret.from[1].index

\* the handle of index 2^32-1 written and read back, next to an arena far
\* shorter than that
C9_Witness ==
    /\ ret.op = "de"
    /\ ret.from = << [index |-> MaxU32] >>
    /\ ret.handle.index = MaxU32
    /\ Len(data) = 1

====
